---- MODULE Spec2Model ----
(***************************************************************************)
(* The client-side audio capture and analysis-submission lifecycle of the  *)
(* presentation-coaching application.                                      *)
(*                                                                         *)
(*   useAudioRecorder  src/app/hooks/useAudioRecorder.js                   *)
(*   Home              src/app/page.js, lines 6-246 (speech analyzer page) *)
(*   Coach             src/app/page.js, lines 420-835 (PDF + analysis)     *)
(*   POST              src/unnamed/part_000 (the analyze route, server)    *)
(*                                                                         *)
(* One component is mounted in a run (the variable mounted, chosen by      *)
(* Init); its React state is a record whose fields carry the source's      *)
(* names.  React may unmount it: its effect cleanup runs, its state is no  *)
(* longer updated or rendered, and the promises and recorder events still  *)
(* outstanding run their handlers all the same.  The browser (getUserMedia, MediaRecorder, object URLs, fetch)   *)
(* is the environment: its pending promises and queued events are state.   *)
(*                                                                         *)
(* Encodings.  null, '' and undefined of an id-valued field are 0; a       *)
(* null message is <<>>; a message built by string concatenation is the    *)
(* tuple of its parts; a JSON object is a record of its fields, a field    *)
(* the object lacks being "undefined".                                     *)
(***************************************************************************)
EXTENDS Integers, Sequences, FiniteSets, TLC

\* startRecording invocations in a run (each acquires at most one stream)
MaxSessions == 2
\* analysis requests the network holds unsettled at a time
MaxRequests == 2

\* PDF uploads the network holds unsettled at a time
MaxUploads == 2
\* slides of a processed PDF
MaxSlides == 2

Sessions == 1..MaxSessions
Requests == 1..MaxRequests
Uploads == 1..MaxUploads

VARIABLES
    mounted,      \* the component this run mounts
    unmounted,    \* whether React has unmounted it since
    mediaDevices, \* whether navigator.mediaDevices.getUserMedia exists
    hook,         \* useAudioRecorder: state and refs
    home,         \* Home: state and refs
    coach,        \* Coach: state
    calls,        \* startRecording invocation -> "none" | "pending" | "settled"
    streams,      \* MediaStream of a session -> "none" | "live" | "ended"
    recorders,    \* MediaRecorder of a session (see RecorderState)
    delivered,    \* how many non-empty fragments each recorder has delivered
    blobs,        \* the Blob each session's stop listener built (<<"none">> before)
    revoked,      \* per object URL, how often URL.revokeObjectURL was called on it
    requests,     \* request slot -> "none" | "blob" (Coach: the recording is being
                  \* read back) | "pending" (the POST is unsettled)
    payload,      \* the FormData a pending request posts
    uploads,      \* PDF upload slot -> "none" | "pending" (an unsettled fetch)
    route,        \* the analyze route: the request it is handling
    op            \* the last operation or event handler that ran, and what
                  \* the fetch settled with if it was a fetch's continuation

vars == <<mounted, unmounted, mediaDevices, hook, home, coach, calls, streams, recorders,
          delivered, blobs, revoked, requests, payload, uploads, route, op>>

NoBlob == <<"none">>
NoSettlement == [rejected |-> "none"]
Null == [error |-> "undefined", content |-> "null"]
Op(name) == [name |-> name, settlement |-> NoSettlement]

(***************************************************************************)
(* Browser: MediaStream tracks, MediaRecorder, object URLs.                *)
(*                                                                         *)
(* A handler runs on a world: the mounted component's state c and the      *)
(* browser objects it can touch.  An action runs the listeners of one      *)
(* browser task on the current world, in the order the browser fires them, *)
(* and commits the result.                                                 *)
(***************************************************************************)
World(c) == [c |-> c, streams |-> streams, recorders |-> recorders,
             blobs |-> blobs, revoked |-> revoked]

\* MediaRecorder.state as the code reads it.  "stopping" is an inactive
\* recorder whose task firing dataavailable, then stop, is still queued.
RecorderState(r) == IF r = "recording" THEN "recording" ELSE "inactive"

\* A recorder whose stream has no live track left is inactivated and queues
\* the task that fires its last dataavailable and its stop event.
RecordersAfter(recs, strs) ==
    [i \in Sessions |->
        IF recs[i] = "recording" /\ strs[i] = "ended" THEN "stopping" ELSE recs[i]]

\* ref.getTracks().forEach(track => track.stop()), under the code's `if (ref)`.
TracksStopped(w, ref) ==
    IF ref = 0 THEN w
    ELSE LET strs == [w.streams EXCEPT ![ref] = "ended"] IN
         [w EXCEPT !.streams = strs, !.recorders = RecordersAfter(@, strs)]

\* URL.revokeObjectURL(url), under the code's `if (audioURL)`.
Revoked(w, url) ==
    IF url = 0 THEN w ELSE [w EXCEPT !.revoked[url] = @ + 1]

\* event.data of a dataavailable event: the k-th non-empty fragment of recorder
\* i is <<i, k>>, an empty one <<i, 0>>.  Sizes are counted in fragments.
\* Both pages call recorder.start() without a timeslice and never call
\* requestData(): a recorder fires dataavailable once, in the task that stops it.
Fragment(i, k) == <<i, k>>
Size(fragment) == IF fragment[2] = 0 THEN 0 ELSE 1

\* What recorder i's next dataavailable event may carry.
EventData(i) == {Fragment(i, 0), Fragment(i, delivered[i] + 1)}

\* new Blob(chunks): the fragments of the list, concatenated in list order.
Blob(chunks) == chunks
BlobSize(blob) == Len(blob)

\* The dataavailable listeners: `if (event.data.size > 0) chunks.push(event.data)`.
Pushed(chunks, fragment) ==
    IF Size(fragment) > 0 THEN Append(chunks, fragment) ELSE chunks

NextSession == Cardinality({i \in Sessions : calls[i] # "none"}) + 1

\* The messages the browser's exceptions and error events carry.
DeniedMessages == {"Permission denied"}
RecorderMessages == {"", "encoder failed"}
ThrowMessages == {"NotSupportedError"}
UnsupportedMessage == "Audio recording is not supported in this browser"
MediaDevicesTypeError == "Cannot read properties of undefined (reading 'getUserMedia')"

(***************************************************************************)
(* useAudioRecorder.  Its callers are not in the repository: the three     *)
(* operations may be called in any order, at any time.                     *)
(***************************************************************************)
HookMounted == mounted = "useAudioRecorder"
\* The caller can reach the hook's operations while it is mounted.
HookRendered == HookMounted /\ ~unmounted

\* What a handler leaves behind once the component is unmounted: its writes to
\* the refs, its state setters being without effect.
Hook_unrendered(c) ==
    [c EXCEPT !.isRecording = hook.isRecording, !.audioURL = hook.audioURL,
              !.error = hook.error]

\* useEffect(..., [audioURL]) cleanup: React runs it, with the audioURL of the
\* render it closed over, once a handler has changed audioURL.
Hook_cleanup(w, audioURL) ==
    IF audioURL = w.c.audioURL THEN w
    ELSE Revoked(TracksStopped(w, w.c.streamRef), audioURL)

\* The handlers' writes, then the effect cleanup of the re-render.
Hook_commit(w) ==
    LET v == IF unmounted THEN [w EXCEPT !.c = Hook_unrendered(w.c)]
             ELSE Hook_cleanup(w, hook.audioURL) IN
    /\ hook' = v.c
    /\ streams' = v.streams
    /\ recorders' = v.recorders
    /\ blobs' = v.blobs
    /\ revoked' = v.revoked

\* The catch block of startRecording.
Hook_catch(w, message) ==
    TracksStopped(
        [w EXCEPT !.c.error = <<"Could not start recording: ", message>>,
                  !.c.isRecording = FALSE],
        w.c.streamRef)

\* startRecording up to its await.
Hook_startRecording ==
    /\ HookRendered
    /\ NextSession <= MaxSessions
    /\ LET i == NextSession
           w == [World(hook) EXCEPT !.c.error = <<>>, !.c.chunksRef = <<>>]
       IN  IF ~mediaDevices
           THEN /\ Hook_commit(Hook_catch(w, UnsupportedMessage))
                /\ calls' = [calls EXCEPT ![i] = "settled"]
           ELSE /\ Hook_commit(w)
                /\ calls' = [calls EXCEPT ![i] = "pending"]
    /\ op' = Op("startRecording")
    /\ UNCHANGED <<mounted, unmounted, route, mediaDevices, coach, uploads, home, delivered, requests,
                   payload>>

\* getUserMedia resolves: the rest of startRecording's try block runs.
Hook_granted(i) ==
    /\ HookMounted
    /\ calls[i] = "pending"
    /\ \E outcome \in {"started", "constructorThrows", "startThrows"} :
       \E message \in ThrowMessages :
         LET w == [World(hook) EXCEPT !.streams[i] = "live", !.c.streamRef = i]
             constructed == [w EXCEPT !.recorders[i] = "inactive",
                                      !.c.mediaRecorderRef = i]
         IN  CASE outcome = "constructorThrows" ->
                    Hook_commit(Hook_catch(w, message))
               [] outcome = "startThrows" ->
                    Hook_commit(Hook_catch(constructed, message))
               [] outcome = "started" ->
                    Hook_commit([constructed EXCEPT !.recorders[i] = "recording",
                                                    !.c.isRecording = TRUE])
    /\ calls' = [calls EXCEPT ![i] = "settled"]
    /\ op' = Op("granted")
    /\ UNCHANGED <<mounted, unmounted, route, mediaDevices, coach, uploads, home, delivered, requests,
                   payload>>

\* getUserMedia rejects.
Hook_denied(i) ==
    /\ HookMounted
    /\ calls[i] = "pending"
    /\ \E message \in DeniedMessages :
         Hook_commit(Hook_catch(World(hook), message))
    /\ calls' = [calls EXCEPT ![i] = "settled"]
    /\ op' = Op("denied")
    /\ UNCHANGED <<mounted, unmounted, route, mediaDevices, coach, uploads, home, delivered, requests,
                   payload>>

\* The listeners startRecording adds to its recorder.
Hook_ondataavailable(w, fragment) ==
    [w EXCEPT !.c.chunksRef = Pushed(@, fragment)]

\* The stop listener, were it to file the Blob under the recorder the ref
\* points at instead of its own.
Hook_onstop_ofRef(w, i) ==
    TracksStopped(
        [w EXCEPT !.blobs[IF w.c.mediaRecorderRef = 0 THEN i ELSE w.c.mediaRecorderRef]
                      = Blob(w.c.chunksRef),
                  !.c.audioURL = i,
                  !.c.isRecording = FALSE],
        w.c.streamRef)

Hook_onstop(w, i) ==
    TracksStopped(
        [w EXCEPT !.blobs[i] = Blob(w.c.chunksRef),
                  !.c.audioURL = i,
                  !.c.isRecording = FALSE],
        w.c.streamRef)

Hook_onerror(w, message) ==
    TracksStopped(
        [w EXCEPT !.c.error = <<"Recording error: ",
                                IF message = "" THEN "Unknown error" ELSE message>>,
                  !.c.isRecording = FALSE],
        w.c.streamRef)

\* The task of a stopped recorder: it fires dataavailable, then stop.
Hook_stopped(i) ==
    /\ HookMounted
    /\ recorders[i] = "stopping"
    /\ \E fragment \in EventData(i) :
         LET w == [World(hook) EXCEPT !.recorders[i] = "inactive"] IN
         /\ delivered' = [delivered EXCEPT ![i] = @ + Size(fragment)]
         /\ Hook_commit(Hook_onstop(Hook_ondataavailable(w, fragment), i))
    /\ op' = Op("stop")
    /\ UNCHANGED <<mounted, unmounted, route, mediaDevices, coach, uploads, home, calls, requests,
                   payload>>

\* The task of a recorder that fails while recording: the browser inactivates
\* it and fires error, then dataavailable, then stop.
Hook_errored(i) ==
    /\ HookMounted
    /\ recorders[i] = "recording"
    /\ \E message \in RecorderMessages, fragment \in EventData(i) :
         LET w == [World(hook) EXCEPT !.recorders[i] = "inactive"] IN
         /\ delivered' = [delivered EXCEPT ![i] = @ + Size(fragment)]
         /\ Hook_commit(
                Hook_onstop(
                    Hook_ondataavailable(Hook_onerror(w, message), fragment), i))
    /\ op' = Op("error")
    /\ UNCHANGED <<mounted, unmounted, route, mediaDevices, coach, uploads, home, calls, requests,
                   payload>>

\* stopRecording without its `state === 'recording'` test.
Hook_stopRecording_unguarded ==
    /\ HookRendered
    /\ LET ref == hook.mediaRecorderRef
           w == World(hook)
       IN  IF ref # 0
           THEN Hook_commit([w EXCEPT !.recorders[ref] = "stopping"])
           ELSE Hook_commit(w)
    /\ op' = Op("stopRecording")
    /\ UNCHANGED <<mounted, unmounted, route, mediaDevices, coach, uploads, home, calls, delivered,
                   requests, payload>>

\* mediaRecorderRef.current.stop(): the recorder is inactivated at once and
\* queues the task that fires dataavailable, then stop.
Hook_stopRecording ==
    /\ HookRendered
    /\ LET ref == hook.mediaRecorderRef
           w == World(hook)
       IN  IF ref # 0 /\ RecorderState(recorders[ref]) = "recording"
           THEN Hook_commit([w EXCEPT !.recorders[ref] = "stopping"])
           ELSE Hook_commit(w)
    /\ op' = Op("stopRecording")
    /\ UNCHANGED <<mounted, unmounted, route, mediaDevices, coach, uploads, home, calls, delivered,
                   requests, payload>>

Hook_resetRecording ==
    /\ HookRendered
    /\ LET w == [World(hook) EXCEPT !.c.error = <<>>] IN
       IF hook.audioURL # 0
       THEN Hook_commit([Revoked(w, hook.audioURL) EXCEPT !.c.audioURL = 0])
       ELSE Hook_commit(w)
    /\ op' = Op("resetRecording")
    /\ UNCHANGED <<mounted, unmounted, route, mediaDevices, coach, uploads, home, calls, delivered,
                   requests, payload>>

\* Unmount: the cleanup of the last render's effect runs.
Hook_unmount ==
    /\ HookRendered
    /\ LET v == Revoked(TracksStopped(World(hook), hook.streamRef), hook.audioURL) IN
       /\ streams' = v.streams
       /\ recorders' = v.recorders
       /\ revoked' = v.revoked
    /\ unmounted' = TRUE
    /\ op' = Op("unmount")
    /\ UNCHANGED <<mounted, route, mediaDevices, hook, home, coach, calls, delivered, blobs,
                   requests, payload, uploads>>

HookNext ==
    \/ Hook_startRecording
    \/ Hook_unmount
    \/ Hook_stopRecording
    \/ Hook_resetRecording
    \/ \E i \in Sessions : Hook_granted(i)
    \/ \E i \in Sessions : Hook_denied(i)
    \/ \E i \in Sessions : Hook_stopped(i)
    \/ \E i \in Sessions : Hook_errored(i)

(***************************************************************************)
(* The analysis endpoint, as fetch shows it to the page.                   *)
(***************************************************************************)

\* A JSON text and a text that is no JSON.  JSON objects carry the two
\* fields the pages read: error, and the rest of the object as content.
Json(object) == <<"json", object>>
Text(string) == <<"text", string>>
Object(error, content) == [error |-> error, content |-> content]

\* response.json(): the decoded object, or a SyntaxError.
ParseJSON(body) ==
    IF body[1] = "json" THEN [ok |-> TRUE, value |-> body[2]]
    ELSE [ok |-> FALSE, message |-> "Unexpected token < in JSON"]

FeedbackBodies ==
    {Json(Object("undefined", "analysis")), Json(Object("undefined", "unexpected"))}
ErrorBodies ==
    {Json(Object("model unavailable", "")), Json(Object("Failed to fetch", "")),
     Json(Object("undefined", ""))}

\* What a pending fetch settles with: a response, or a rejection whose
\* message is the browser's.
Responses ==
    [ok : {TRUE}, status : {200}, body : FeedbackBodies \cup {Text("<html>")}]
    \cup [ok : {FALSE}, status : {500}, body : ErrorBodies \cup {Text("<html>")}]
NetworkFailures ==
    {[rejected |-> "Failed to fetch"],
     [rejected |-> "NetworkError when attempting to fetch resource."]}
Settlements == Responses \cup NetworkFailures
IsResponse(x) == "ok" \in DOMAIN x

\* The multipart body of an analysis request: its audio field and, where the
\* page appends one, its slide_content field.
FormData(audio, slide_content) == [audio |-> audio, slide_content |-> slide_content]
NoFormData == FormData(NoBlob, <<>>)

\* The requests an analysis handler has begun and whose fetch has not settled.
Unresolved == {r \in Requests : requests[r] # "none"}
FreeRequest == CHOOSE r \in Requests : requests[r] = "none"

(***************************************************************************)
(* Home (speech analyzer page).  The user reaches its handlers through the *)
(* buttons the page renders.                                               *)
(***************************************************************************)
HomeMounted == mounted = "Home"
\* The page's buttons exist while it is mounted.
HomeRendered == HomeMounted /\ ~unmounted

\* What a handler leaves behind once the page is unmounted: its writes to the
\* refs, its state setters being without effect.
Home_unrendered(c) ==
    [home EXCEPT !.mediaRecorderRef = c.mediaRecorderRef,
                 !.mediaStreamRef = c.mediaStreamRef,
                 !.audioChunksRef = c.audioChunksRef]

\* Start Recording: rendered while !isRecording, disabled={isProcessing}.
Home_StartButton == ~home.isRecording /\ ~home.isProcessing
\* Stop Recording: rendered while isRecording.
Home_StopButton == home.isRecording
\* The Analyze Recording button without its disabled={isProcessing}.
Home_AnalyzeButton_enabled == home.audioURL # 0 /\ ~home.isRecording

\* Analyze Recording: rendered while audioURL && !isRecording, disabled={isProcessing}.
Home_AnalyzeButton ==
    home.audioURL # 0 /\ ~home.isRecording /\ ~home.isProcessing
\* Try Again (under the error) and Record Another (under the feedback).
Home_ResetButton == home.error # <<>> \/ home.feedback # Null

\* useEffect(..., [audioURL]) cleanup.
Home_cleanup(w, audioURL) ==
    IF audioURL = w.c.audioURL THEN w
    ELSE Revoked(TracksStopped(w, w.c.mediaStreamRef), audioURL)

\* The handlers' writes, then the effect cleanup of the re-render.
Home_commit(w) ==
    LET v == IF unmounted THEN [w EXCEPT !.c = Home_unrendered(w.c)]
             ELSE Home_cleanup(w, home.audioURL) IN
    /\ home' = v.c
    /\ streams' = v.streams
    /\ recorders' = v.recorders
    /\ blobs' = v.blobs
    /\ revoked' = v.revoked

\* The catch block of startRecording.
Home_catch(w, message) ==
    TracksStopped(
        [w EXCEPT !.c.error = <<"Could not start recording: ", message>>,
                  !.c.isRecording = FALSE],
        w.c.mediaStreamRef)

\* startRecording up to its await.
Home_startRecording ==
    /\ HomeRendered
    /\ Home_StartButton
    /\ NextSession <= MaxSessions
    /\ LET i == NextSession
           w == [World(home) EXCEPT !.c.error = <<>>, !.c.audioBlob = 0,
                                    !.c.audioURL = 0, !.c.feedback = Null,
                                    !.c.audioChunksRef = <<>>]
       IN  IF ~mediaDevices
           THEN /\ Home_commit(Home_catch(w, MediaDevicesTypeError))
                /\ calls' = [calls EXCEPT ![i] = "settled"]
           ELSE /\ Home_commit(w)
                /\ calls' = [calls EXCEPT ![i] = "pending"]
    /\ op' = Op("startRecording")
    /\ UNCHANGED <<mounted, unmounted, route, mediaDevices, coach, uploads, hook, delivered, requests,
                   payload>>

\* getUserMedia resolves: the rest of startRecording's try block runs.
Home_granted(i) ==
    /\ HomeMounted
    /\ calls[i] = "pending"
    /\ \E outcome \in {"started", "constructorThrows", "startThrows"} :
       \E message \in ThrowMessages :
         LET w == [World(home) EXCEPT !.streams[i] = "live", !.c.mediaStreamRef = i]
             constructed == [w EXCEPT !.recorders[i] = "inactive"]
         IN  CASE outcome = "constructorThrows" ->
                    Home_commit(Home_catch(w, message))
               [] outcome = "startThrows" ->
                    Home_commit(Home_catch(constructed, message))
               [] outcome = "started" ->
                    Home_commit([constructed EXCEPT !.recorders[i] = "recording",
                                                    !.c.mediaRecorderRef = i,
                                                    !.c.isRecording = TRUE])
    /\ calls' = [calls EXCEPT ![i] = "settled"]
    /\ op' = Op("granted")
    /\ UNCHANGED <<mounted, unmounted, route, mediaDevices, coach, uploads, hook, delivered, requests,
                   payload>>

\* getUserMedia rejects.
Home_denied(i) ==
    /\ HomeMounted
    /\ calls[i] = "pending"
    /\ \E message \in DeniedMessages :
         Home_commit(Home_catch(World(home), message))
    /\ calls' = [calls EXCEPT ![i] = "settled"]
    /\ op' = Op("denied")
    /\ UNCHANGED <<mounted, unmounted, route, mediaDevices, coach, uploads, hook, delivered, requests,
                   payload>>

\* The handlers startRecording sets on its recorder.
Home_ondataavailable(w, fragment) ==
    [w EXCEPT !.c.audioChunksRef = Pushed(@, fragment)]

Home_onstop(w, i) ==
    TracksStopped(
        [w EXCEPT !.blobs[i] = Blob(w.c.audioChunksRef),
                  !.c.audioBlob = i,
                  !.c.audioURL = i,
                  !.c.isRecording = FALSE],
        w.c.mediaStreamRef)

Home_onerror(w, message) ==
    TracksStopped(
        [w EXCEPT !.c.error = <<"Recording error: ",
                                IF message = "" THEN "Unknown error" ELSE message>>,
                  !.c.isRecording = FALSE],
        w.c.mediaStreamRef)

\* The task of a stopped recorder: it fires dataavailable, then stop.
Home_stopped(i) ==
    /\ HomeMounted
    /\ recorders[i] = "stopping"
    /\ \E fragment \in EventData(i) :
         LET w == [World(home) EXCEPT !.recorders[i] = "inactive"] IN
         /\ delivered' = [delivered EXCEPT ![i] = @ + Size(fragment)]
         /\ Home_commit(Home_onstop(Home_ondataavailable(w, fragment), i))
    /\ op' = Op("stop")
    /\ UNCHANGED <<mounted, unmounted, route, mediaDevices, coach, uploads, hook, calls, requests,
                   payload>>

\* The task of a recorder that fails while recording: the browser inactivates
\* it and fires error, then dataavailable, then stop.
Home_errored(i) ==
    /\ HomeMounted
    /\ recorders[i] = "recording"
    /\ \E message \in RecorderMessages, fragment \in EventData(i) :
         LET w == [World(home) EXCEPT !.recorders[i] = "inactive"] IN
         /\ delivered' = [delivered EXCEPT ![i] = @ + Size(fragment)]
         /\ Home_commit(
                Home_onstop(
                    Home_ondataavailable(Home_onerror(w, message), fragment), i))
    /\ op' = Op("error")
    /\ UNCHANGED <<mounted, unmounted, route, mediaDevices, coach, uploads, hook, calls, requests,
                   payload>>

Home_stopRecording ==
    /\ HomeRendered
    /\ Home_StopButton
    /\ LET ref == home.mediaRecorderRef
           w == World(home)
       IN  IF ref # 0 /\ RecorderState(recorders[ref]) = "recording"
           THEN Home_commit([w EXCEPT !.recorders[ref] = "stopping"])
           ELSE Home_commit(w)
    /\ op' = Op("stopRecording")
    /\ UNCHANGED <<mounted, unmounted, route, mediaDevices, coach, uploads, hook, calls, delivered,
                   requests, payload>>

Home_resetRecording ==
    /\ HomeRendered
    /\ Home_ResetButton
    /\ LET w == Revoked(TracksStopped(World(home), home.mediaStreamRef), home.audioURL)
       IN  Home_commit([w EXCEPT !.c.audioBlob = 0, !.c.audioURL = 0,
                                 !.c.feedback = Null, !.c.error = <<>>,
                                 !.c.audioChunksRef = <<>>])
    /\ op' = Op("resetRecording")
    /\ UNCHANGED <<mounted, unmounted, route, mediaDevices, coach, uploads, hook, calls, delivered,
                   requests, payload>>

\* analyzeRecording up to its await fetch('/api/analyze', ...).
Home_analyzeRecording ==
    /\ HomeRendered
    /\ Home_AnalyzeButton
    /\ Cardinality(Unresolved) < MaxRequests
    /\ IF home.audioBlob = 0
       THEN /\ home' = [home EXCEPT !.error = <<"No recording to analyze">>]
            /\ UNCHANGED <<requests, payload>>
       ELSE /\ home' = [home EXCEPT !.isProcessing = TRUE, !.error = <<>>]
            /\ requests' = [requests EXCEPT ![FreeRequest] = "pending"]
            /\ payload' = [payload EXCEPT
                            ![FreeRequest] = FormData(blobs[home.audioBlob], <<>>)]
    /\ op' = Op("analyzeRecording")
    /\ UNCHANGED <<mounted, unmounted, route, mediaDevices, coach, uploads, hook, calls, streams, recorders,
                   delivered, blobs, revoked>>

\* The message analyzeRecording's catch block receives.
Home_thrown(settlement) ==
    IF ~IsResponse(settlement) THEN settlement.rejected
    ELSE IF ~settlement.ok THEN "Failed to analyze recording"
    ELSE ParseJSON(settlement.body).message

\* The state a continuation's setters leave: none of theirs once unmounted.
Home_unrenderedOr(c) == IF unmounted THEN Home_unrendered(c) ELSE c

\* analyzeRecording's continuation, were setIsProcessing(false) at the end of
\* the try block instead of in finally.
Home_settled_noFinally(r) ==
    /\ HomeMounted
    /\ requests[r] = "pending"
    /\ \E settlement \in Settlements :
         /\ op' = [name |-> "settled", settlement |-> settlement]
         /\ IF IsResponse(settlement) /\ settlement.ok /\ ParseJSON(settlement.body).ok
            THEN home' = Home_unrenderedOr([home EXCEPT
                            !.feedback = ParseJSON(settlement.body).value,
                            !.isProcessing = FALSE])
            ELSE home' = Home_unrenderedOr([home EXCEPT
                            !.error = <<"Analysis failed: ", Home_thrown(settlement)>>])
    /\ requests' = [requests EXCEPT ![r] = "none"]
    /\ payload' = [payload EXCEPT ![r] = NoFormData]
    /\ UNCHANGED <<mounted, unmounted, route, mediaDevices, coach, uploads, hook, calls,
                   streams, recorders, delivered, blobs, revoked>>

\* The fetch of request r settles: the rest of analyzeRecording runs.
Home_settled(r) ==
    /\ HomeMounted
    /\ requests[r] = "pending"
    /\ \E settlement \in Settlements :
         /\ op' = [name |-> "settled", settlement |-> settlement]
         /\ IF IsResponse(settlement) /\ settlement.ok /\ ParseJSON(settlement.body).ok
            THEN home' = Home_unrenderedOr([home EXCEPT
                            !.feedback = ParseJSON(settlement.body).value,
                            !.isProcessing = FALSE])
            ELSE home' = Home_unrenderedOr([home EXCEPT
                            !.error = <<"Analysis failed: ", Home_thrown(settlement)>>,
                            !.isProcessing = FALSE])
    /\ requests' = [requests EXCEPT ![r] = "none"]
    /\ payload' = [payload EXCEPT ![r] = NoFormData]
    /\ UNCHANGED <<mounted, unmounted, route, mediaDevices, coach, uploads, hook, calls, streams, recorders,
                   delivered, blobs, revoked>>

\* Unmount: the cleanup of the last render's effect runs.
Home_unmount ==
    /\ HomeRendered
    /\ LET v == Revoked(TracksStopped(World(home), home.mediaStreamRef), home.audioURL) IN
       /\ streams' = v.streams
       /\ recorders' = v.recorders
       /\ revoked' = v.revoked
    /\ unmounted' = TRUE
    /\ op' = Op("unmount")
    /\ UNCHANGED <<mounted, route, mediaDevices, hook, home, coach, calls, delivered, blobs,
                   requests, payload, uploads>>

HomeNext ==
    \/ Home_startRecording
    \/ Home_unmount
    \/ Home_stopRecording
    \/ Home_resetRecording
    \/ Home_analyzeRecording
    \/ \E i \in Sessions : Home_granted(i)
    \/ \E i \in Sessions : Home_denied(i)
    \/ \E i \in Sessions : Home_stopped(i)
    \/ \E i \in Sessions : Home_errored(i)
    \/ \E r \in Requests : Home_settled(r)

(***************************************************************************)
(* Coach (PDF presentation page).                                          *)
(***************************************************************************)
CoachMounted == mounted = "Coach"

\* `if (!mediaRecorderHook) return <div>Loading media recorder...</div>`
Coach_Rendered == CoachMounted /\ coach.mediaRecorderHook # <<>>
Coach_mediaBlobUrl == coach.mediaRecorderHook[1]

\* Analyze Presentation:
\* disabled={!presentationSlides.length || !mediaRecorderHook.mediaBlobUrl || isAnalyzing}
Coach_AnalyzeButton ==
    /\ Coach_Rendered
    /\ Len(coach.presentationSlides) # 0
    /\ Coach_mediaBlobUrl # 0
    /\ ~coach.isAnalyzing

\* The catch block of initializeMediaRecorder.
Coach_initFailed(message) ==
    [coach EXCEPT !.mediaError = <<"Could not initialize audio recording: ", message>>]

\* The mount effect: initializeMediaRecorder up to its await.
Coach_initializeMediaRecorder ==
    /\ CoachMounted
    /\ op.name = "mount"
    /\ IF ~mediaDevices
       THEN /\ coach' = Coach_initFailed("Your browser does not support audio recording")
            /\ calls' = [calls EXCEPT ![1] = "settled"]
       ELSE /\ calls' = [calls EXCEPT ![1] = "pending"]
            /\ UNCHANGED coach
    /\ op' = Op("initializeMediaRecorder")
    /\ UNCHANGED <<mediaDevices, mounted, unmounted, route, hook, home, streams, recorders, delivered,
                   blobs, revoked, requests, payload, uploads>>

\* getUserMedia resolves; the test stream is stopped and the recorder library
\* is called.  What the library returns is not the repository's: its
\* mediaBlobUrl is absent or set, or the call throws.
Coach_granted ==
    /\ CoachMounted
    /\ calls[1] = "pending"
    /\ \E result \in {<<0>>, <<1>>, <<>>} :
         IF result = <<>>
         THEN coach' = Coach_initFailed("Invalid hook call")
         ELSE coach' = [coach EXCEPT !.mediaRecorderHook = result, !.mediaError = <<>>]
    /\ streams' = [streams EXCEPT ![1] = "ended"]
    /\ calls' = [calls EXCEPT ![1] = "settled"]
    /\ op' = Op("granted")
    /\ UNCHANGED <<mediaDevices, mounted, unmounted, route, hook, home, recorders, delivered, blobs,
                   revoked, requests, payload, uploads>>

Coach_denied ==
    /\ CoachMounted
    /\ calls[1] = "pending"
    /\ \E message \in DeniedMessages : coach' = Coach_initFailed(message)
    /\ calls' = [calls EXCEPT ![1] = "settled"]
    /\ op' = Op("denied")
    /\ UNCHANGED <<mediaDevices, mounted, unmounted, route, hook, home, streams, recorders, delivered,
                   blobs, revoked, requests, payload, uploads>>

\* The slides of a processed PDF, as the backend lists them.
Slides(n) == [k \in 1..n |-> k]

\* What the fetch of /process-pdf settles with.
PdfResponses ==
    [ok : {TRUE}, isArray : {TRUE}, slides : {Slides(n) : n \in 0..MaxSlides},
     error : {"undefined"}, json : {TRUE}]
    \cup [ok : {TRUE}, isArray : {FALSE}, slides : {<<>>}, error : {"undefined"},
          json : BOOLEAN]
    \cup [ok : {FALSE}, isArray : {FALSE}, slides : {<<>>},
          error : {"undefined", "No PDF file"}, json : BOOLEAN]
PdfFailures == [rejected : {"Failed to fetch"}, onLine : BOOLEAN]
PdfSettlements == PdfResponses \cup PdfFailures

\* The message onDrop's try block throws for a response.
Coach_pdfThrown(response) ==
    IF ~response.ok
    THEN IF ~response.json THEN <<"Server error: ", "500", " ", "Internal Server Error">>
         ELSE IF response.error # "undefined" THEN <<response.error>>
         ELSE <<"Failed to process PDF">>
    ELSE IF ~response.json THEN <<"Unexpected token < in JSON">>
    ELSE <<"Invalid response format from server">>

\* onDrop up to its await fetch(`${BACKEND_URL}/process-pdf`, ...).
Coach_onDrop ==
    /\ Coach_Rendered
    /\ Cardinality({u \in Uploads : uploads[u] = "pending"}) < MaxUploads
    /\ \E file \in BOOLEAN :
         IF ~file
         THEN UNCHANGED <<coach, uploads>>
         ELSE /\ coach' = [coach EXCEPT !.isProcessingPDF = TRUE, !.uploadError = <<>>]
              /\ uploads' = [uploads EXCEPT
                    ![CHOOSE u \in Uploads : uploads[u] = "none"] = "pending"]
    /\ op' = Op("onDrop")
    /\ UNCHANGED <<mediaDevices, mounted, unmounted, route, hook, home, calls, streams, recorders,
                   delivered, blobs, revoked, requests, payload>>

\* onDrop's continuation, were it to leave activeSlideIndex alone.
Coach_pdfSettled_keepingIndex(u) ==
    /\ CoachMounted
    /\ uploads[u] = "pending"
    /\ \E settlement \in PdfSettlements :
         /\ op' = [name |-> "pdfSettled", settlement |-> settlement]
         /\ IF IsResponse(settlement) /\ settlement.ok /\ settlement.json
               /\ settlement.isArray
            THEN coach' = [coach EXCEPT !.presentationSlides = settlement.slides,
                                        !.isProcessingPDF = FALSE]
            ELSE coach' = [coach EXCEPT !.isProcessingPDF = FALSE]
    /\ uploads' = [uploads EXCEPT ![u] = "none"]
    /\ UNCHANGED <<mediaDevices, mounted, unmounted, route, hook, home, calls, streams,
                   recorders, delivered, blobs, revoked, requests, payload>>

\* The fetch of upload u settles: the rest of onDrop runs.
Coach_pdfSettled(u) ==
    /\ CoachMounted
    /\ uploads[u] = "pending"
    /\ \E settlement \in PdfSettlements :
         /\ op' = [name |-> "pdfSettled", settlement |-> settlement]
         /\ IF IsResponse(settlement) /\ settlement.ok /\ settlement.json
               /\ settlement.isArray
            THEN coach' = [coach EXCEPT !.presentationSlides = settlement.slides,
                                        !.activeSlideIndex = 0,
                                        !.isProcessingPDF = FALSE]
            ELSE coach' = [coach EXCEPT
                    !.uploadError =
                        IF ~IsResponse(settlement)
                        THEN IF ~settlement.onLine THEN <<"You appear to be offline.">>
                             ELSE <<"Could not connect to the server at ", "BACKEND_URL">>
                        ELSE <<"Error: ">> \o Coach_pdfThrown(settlement),
                    !.isProcessingPDF = FALSE]
    /\ uploads' = [uploads EXCEPT ![u] = "none"]
    /\ UNCHANGED <<mediaDevices, mounted, unmounted, route, hook, home, calls, streams, recorders,
                   delivered, blobs, revoked, requests, payload>>

\* A thumbnail's onClick={() => setActiveSlideIndex(index)}.
Coach_setActiveSlideIndex(index) ==
    /\ Coach_Rendered
    /\ index + 1 \in DOMAIN coach.presentationSlides
    /\ coach' = [coach EXCEPT !.activeSlideIndex = index]
    /\ op' = Op("setActiveSlideIndex")
    /\ UNCHANGED <<mediaDevices, mounted, unmounted, route, hook, home, calls, streams, recorders,
                   delivered, blobs, revoked, requests, payload, uploads>>

\* error.message.includes('Failed to fetch'), a message being its parts.
Includes(message, needle) == \E k \in DOMAIN message : message[k] = needle

\* What handleAnalysis's catch block sets for a thrown message.
Coach_caught(message) ==
    IF Includes(message, "Failed to fetch")
    THEN <<"Could not connect to the server. Please make sure the backend server is running.">>
    ELSE <<"Analysis failed: ">> \o message

\* handleAnalysis up to its await fetch(mediaRecorderHook.mediaBlobUrl).
Coach_handleAnalysis ==
    /\ Coach_AnalyzeButton
    /\ Cardinality(Unresolved) < MaxRequests
    /\ IF Len(coach.presentationSlides) = 0 \/ Coach_mediaBlobUrl = 0
       THEN UNCHANGED <<coach, requests, payload>>
       ELSE /\ coach' = [coach EXCEPT !.isAnalyzing = TRUE, !.uploadError = <<>>]
            /\ requests' = [requests EXCEPT ![FreeRequest] = "blob"]
            /\ payload' = [payload EXCEPT ![FreeRequest] =
                    FormData(NoBlob, <<"Slide ", ToString(coach.activeSlideIndex + 1), " of ",
                                       ToString(Len(coach.presentationSlides))>>)]
    /\ op' = Op("handleAnalysis")
    /\ UNCHANGED <<mediaDevices, mounted, unmounted, route, hook, home, calls, streams, recorders,
                   delivered, blobs, revoked, uploads>>

\* The fetch of the recording's blob URL settles: the form is built and posted,
\* or the catch and finally blocks run.
Coach_blobFetched(r) ==
    /\ CoachMounted
    /\ requests[r] = "blob"
    /\ \E resolved \in BOOLEAN, audio \in {<<>>, <<Fragment(0, 1)>>} :
         IF ~resolved
         THEN /\ coach' = [coach EXCEPT !.uploadError = Coach_caught(<<"Failed to fetch">>),
                                        !.isAnalyzing = FALSE]
              /\ requests' = [requests EXCEPT ![r] = "none"]
              /\ payload' = [payload EXCEPT ![r] = NoFormData]
         ELSE /\ requests' = [requests EXCEPT ![r] = "pending"]
              /\ payload' = [payload EXCEPT ![r].audio = audio]
              /\ UNCHANGED coach
    /\ op' = Op("blobFetched")
    /\ UNCHANGED <<mediaDevices, mounted, unmounted, route, hook, home, calls, streams, recorders,
                   delivered, blobs, revoked, uploads>>

\* The message handleAnalysis's try block throws for a settlement.
Coach_thrown(settlement) ==
    IF ~IsResponse(settlement) THEN <<settlement.rejected>>
    ELSE IF ~settlement.ok
         THEN LET errorData == IF ParseJSON(settlement.body).ok
                               THEN ParseJSON(settlement.body).value
                               ELSE Object("Unknown error occurred", "")
              IN  IF errorData.error \notin {"undefined", ""}
                  THEN <<errorData.error>>
                  ELSE <<"Server error: ", ToString(settlement.status)>>
         ELSE <<ParseJSON(settlement.body).message>>

\* handleAnalysis's continuation, were it to keep only the response's error field.
Coach_settled_dropping(r) ==
    /\ CoachMounted
    /\ requests[r] = "pending"
    /\ \E settlement \in Settlements :
         /\ op' = [name |-> "settled", settlement |-> settlement]
         /\ IF IsResponse(settlement) /\ settlement.ok /\ ParseJSON(settlement.body).ok
            THEN coach' = [coach EXCEPT
                            !.feedback = Object(ParseJSON(settlement.body).value.error, ""),
                            !.isAnalyzing = FALSE]
            ELSE coach' = [coach EXCEPT
                            !.uploadError = Coach_caught(Coach_thrown(settlement)),
                            !.isAnalyzing = FALSE]
    /\ requests' = [requests EXCEPT ![r] = "none"]
    /\ payload' = [payload EXCEPT ![r] = NoFormData]
    /\ UNCHANGED <<mediaDevices, mounted, unmounted, route, hook, home, calls, streams, recorders,
                   delivered, blobs, revoked, uploads>>

\* The fetch of `${BACKEND_URL}/analyze` settles: the rest of handleAnalysis runs.
Coach_settled(r) ==
    /\ CoachMounted
    /\ requests[r] = "pending"
    /\ \E settlement \in Settlements :
         /\ op' = [name |-> "settled", settlement |-> settlement]
         /\ IF IsResponse(settlement) /\ settlement.ok /\ ParseJSON(settlement.body).ok
            THEN coach' = [coach EXCEPT
                            !.feedback = ParseJSON(settlement.body).value,
                            !.isAnalyzing = FALSE]
            ELSE coach' = [coach EXCEPT
                            !.uploadError = Coach_caught(Coach_thrown(settlement)),
                            !.isAnalyzing = FALSE]
    /\ requests' = [requests EXCEPT ![r] = "none"]
    /\ payload' = [payload EXCEPT ![r] = NoFormData]
    /\ UNCHANGED <<mediaDevices, mounted, unmounted, route, hook, home, calls, streams, recorders,
                   delivered, blobs, revoked, uploads>>

CoachNext ==
    \/ Coach_initializeMediaRecorder
    \/ Coach_granted
    \/ Coach_denied
    \/ Coach_onDrop
    \/ Coach_handleAnalysis
    \/ \E u \in Uploads : Coach_pdfSettled(u)
    \/ \E index \in 0..(MaxSlides - 1) : Coach_setActiveSlideIndex(index)
    \/ \E r \in Requests : Coach_blobFetched(r)
    \/ \E r \in Requests : Coach_settled(r)

(***************************************************************************)
(* POST (the analyze route).  It keeps no state between requests: the run  *)
(* follows one request at a time through the handler's awaits.             *)
(***************************************************************************)
RouteMounted == mounted = "POST"

\* What request.formData() makes of the request body: it throws, or the form
\* has no audio field, an empty text field, a text field or a file under it.
RequestBodies == {"unparseable", "absent", "emptyText", "text", "file"}

\* NextResponse.json(body, { status }): absent fields are "undefined".
NextResponse(status, error, transcription, feedback) ==
    [status |-> status, error |-> error, transcription |-> transcription,
     feedback |-> feedback]

Route_idle == [pc |-> "idle", body |-> "none", calls |-> <<>>, outcomes |-> <<>>,
               responses |-> <<>>]

\* The handler returns a response.
Route_returned(response) ==
    [route EXCEPT !.pc = "done", !.responses = Append(@, response)]

\* The catch block.
Route_catch == Route_returned(NextResponse(500, "Failed to process audio",
                                           "undefined", "undefined"))

\* A request arrives: POST runs to its await request.formData().
Route_POST ==
    /\ RouteMounted
    /\ route.pc \in {"idle", "done"}
    /\ \E body \in RequestBodies :
         route' = [Route_idle EXCEPT !.pc = "formData", !.body = body]
    /\ op' = Op("POST")
    /\ UNCHANGED <<mounted, unmounted, mediaDevices, hook, home, coach, calls, streams,
                   recorders, delivered, blobs, revoked, requests, payload, uploads>>

\* POST, were it to go on without an audio field.
Route_formData_unchecked ==
    /\ RouteMounted
    /\ route.pc = "formData"
    /\ route' = IF route.body = "unparseable" THEN Route_catch
                ELSE [route EXCEPT !.pc = "arrayBuffer"]
    /\ op' = Op("formData")
    /\ UNCHANGED <<mounted, unmounted, mediaDevices, hook, home, coach, calls, streams,
                   recorders, delivered, blobs, revoked, requests, payload, uploads>>

\* request.formData() settles: formData.get('audio') and the `!audioFile` test.
Route_formData ==
    /\ RouteMounted
    /\ route.pc = "formData"
    /\ route' = IF route.body = "unparseable" THEN Route_catch
                ELSE IF route.body \in {"absent", "emptyText"}
                THEN Route_returned(NextResponse(400, "No audio file provided",
                                                 "undefined", "undefined"))
                ELSE [route EXCEPT !.pc = "arrayBuffer"]
    /\ op' = Op("formData")
    /\ UNCHANGED <<mounted, unmounted, mediaDevices, hook, home, coach, calls, streams,
                   recorders, delivered, blobs, revoked, requests, payload, uploads>>

\* audioFile.arrayBuffer(): a text field has no such method (TypeError); for a
\* file, the buffer is read and openai.audio.transcriptions.create is called.
Route_arrayBuffer ==
    /\ RouteMounted
    /\ route.pc = "arrayBuffer"
    /\ route' = IF route.body # "file" THEN Route_catch
                ELSE [route EXCEPT !.pc = "transcription",
                                   !.calls = Append(@, "transcription")]
    /\ op' = Op("arrayBuffer")
    /\ UNCHANGED <<mounted, unmounted, mediaDevices, hook, home, coach, calls, streams,
                   recorders, delivered, blobs, revoked, requests, payload, uploads>>

\* The transcription call settles; on success openai.chat.completions.create
\* is called with its text.
Route_transcribed ==
    /\ RouteMounted
    /\ route.pc = "transcription"
    /\ \E outcome \in {"ok", "failed"} :
         route' = IF outcome = "failed"
                  THEN [Route_catch EXCEPT !.outcomes = Append(@, outcome)]
                  ELSE [route EXCEPT !.pc = "chat",
                                     !.calls = Append(@, "chat"),
                                     !.outcomes = Append(@, outcome)]
    /\ op' = Op("transcribed")
    /\ UNCHANGED <<mounted, unmounted, mediaDevices, hook, home, coach, calls, streams,
                   recorders, delivered, blobs, revoked, requests, payload, uploads>>

\* The chat completion settles: completion.choices[0].message.content (a
\* TypeError if there is no choice) and the 200 response.
Route_completed ==
    /\ RouteMounted
    /\ route.pc = "chat"
    /\ \E outcome \in {"ok", "noChoices", "failed"} :
         route' = IF outcome = "ok"
                  THEN [Route_returned(NextResponse(200, "undefined", "text", "content"))
                            EXCEPT !.outcomes = Append(@, outcome)]
                  ELSE [Route_catch EXCEPT !.outcomes = Append(@, outcome)]
    /\ op' = Op("completed")
    /\ UNCHANGED <<mounted, unmounted, mediaDevices, hook, home, coach, calls, streams,
                   recorders, delivered, blobs, revoked, requests, payload, uploads>>

RouteNext ==
    \/ Route_POST
    \/ Route_formData
    \/ Route_arrayBuffer
    \/ Route_transcribed
    \/ Route_completed

(***************************************************************************)
(* Initial state and specification.                                        *)
(***************************************************************************)
Init ==
    /\ mounted \in {"useAudioRecorder", "Home", "Coach", "POST"}
    /\ unmounted = FALSE
    /\ mediaDevices \in BOOLEAN
    /\ hook = [isRecording |-> FALSE, audioURL |-> 0, error |-> <<>>,
               mediaRecorderRef |-> 0, streamRef |-> 0, chunksRef |-> <<>>]
    /\ home = [isRecording |-> FALSE, isProcessing |-> FALSE, audioBlob |-> 0,
               audioURL |-> 0, feedback |-> Null, error |-> <<>>,
               mediaRecorderRef |-> 0, mediaStreamRef |-> 0,
               audioChunksRef |-> <<>>]
    /\ coach = [presentationSlides |-> <<>>, activeSlideIndex |-> 0,
                feedback |-> Null, isAnalyzing |-> FALSE, isProcessingPDF |-> FALSE,
                uploadError |-> <<>>, mediaRecorderHook |-> <<>>,
                mediaError |-> <<>>]
    /\ calls = [i \in Sessions |-> "none"]
    /\ streams = [i \in Sessions |-> "none"]
    /\ recorders = [i \in Sessions |-> "none"]
    /\ delivered = [i \in Sessions |-> 0]
    /\ blobs = [i \in Sessions |-> NoBlob]
    /\ revoked = [i \in Sessions |-> 0]
    /\ requests = [r \in Requests |-> "none"]
    /\ payload = [r \in Requests |-> NoFormData]
    /\ uploads = [u \in Uploads |-> "none"]
    /\ route = Route_idle
    /\ op = Op("mount")

Next == HookNext \/ HomeNext \/ CoachNext \/ RouteNext

Spec == Init /\ [][Next]_vars

(***************************************************************************)
(* Properties.  The mounted component's view of the state the properties   *)
(* speak of.                                                               *)
(***************************************************************************)
IsRecording ==
    CASE HookMounted -> hook.isRecording
      [] HomeMounted -> home.isRecording
      [] OTHER -> FALSE
ErrorShown ==
    CASE HookMounted -> hook.error
      [] HomeMounted -> home.error
      [] OTHER -> coach.uploadError
Feedback == IF HomeMounted THEN home.feedback ELSE coach.feedback
InProgress == IF HomeMounted THEN home.isProcessing ELSE coach.isAnalyzing

LiveStreams == {i \in Sessions : streams[i] = "live"}
RecordingRecorders == {i \in Sessions : recorders[i] = "recording"}
Acquiring == {i \in Sessions : calls[i] = "pending"}

\* The non-empty fragments recorder i has delivered, in delivery order.
Delivered(i) == [k \in 1..delivered[i] |-> Fragment(i, k)]

\* The last step was the continuation of an analysis fetch.
Settled == op.name = "settled" /\ ~unmounted
\* ... of one that resolved with a 2xx response whose body parses as JSON
SettledWithFeedback ==
    /\ Settled
    /\ IsResponse(op.settlement)
    /\ op.settlement.ok
    /\ ParseJSON(op.settlement.body).ok
\* ... with a failing status and a JSON body whose error field is a string
SettledWithServerError ==
    /\ Settled
    /\ IsResponse(op.settlement)
    /\ ~op.settlement.ok
    /\ ParseJSON(op.settlement.body).ok
    /\ ParseJSON(op.settlement.body).value.error \notin {"undefined", ""}
\* ... of one that rejected
SettledWithNetworkFailure == Settled /\ ~IsResponse(op.settlement)

\* The message the mounted page shows for a settlement that is no success.
MessageShown(settlement) ==
    IF HomeMounted THEN <<"Analysis failed: ", Home_thrown(settlement)>>
    ELSE Coach_caught(Coach_thrown(settlement))
ServerErrorMessages == {MessageShown(r) : r \in {x \in Responses : ~x.ok}}

\* C1: the Blob a session's stop builds is exactly the fragments its own
\* recorder delivered between its start and its stop, in delivery order, with
\* none lost, none repeated and none of another session.
C1_BlobIsTheSessionsFragments ==
    \A i \in Sessions : blobs[i] # NoBlob => blobs[i] = Delivered(i)

\* C2: a stopRecording called while no recorder is recording (the session is
\* Idle, AcquiringDevice, Stopped or Failed) changes neither isRecording,
\* audioURL, error nor the chunk list, and stops no recorder.
C2_StopOutsideRecordingIsNoOp ==
    [][(op'.name = "stopRecording" /\ RecordingRecorders = {})
        => UNCHANGED <<hook, home, recorders, streams, blobs, revoked>>]_vars

C2_StoppedOutsideRecording ==
    /\ op.name = "stopRecording"
    /\ \A i \in Sessions : recorders[i] \in {"none", "inactive"}
    /\ HookMounted
    /\ hook.audioURL # 0
    /\ Acquiring = {}

\* C3: once a session has failed (an error is shown, nothing is recording and
\* no acquisition is pending), every stream that was acquired has had its
\* tracks stopped.
C3_NoStreamHeldAfterFailure ==
    (ErrorShown # <<>> /\ ~IsRecording /\ Acquiring = {} /\ ~CoachMounted)
        => LiveStreams = {}

\* C4: over a whole run each object URL is revoked at most once, counting the
\* revoke inside resetRecording and the one in the audioURL effect cleanup.
C4_RevokedAtMostOnce == \A url \in Sessions : revoked[url] <= 1

\* C5: at no time is more than one stream live, nor more than one recorder
\* recording.
C5_OneLiveCaptureSession ==
    Cardinality(LiveStreams) <= 1 /\ Cardinality(RecordingRecorders) <= 1

\* C6: when the analysis request resolves with a 2xx status and a body that
\* parses as JSON, feedback becomes exactly the decoded body and the response
\* sets no error.
C6_SuccessSetsFeedback ==
    [][SettledWithFeedback'
        => /\ Feedback' = ParseJSON(op'.settlement.body).value
           /\ ErrorShown' = ErrorShown]_vars

C6_FeedbackReceived ==
    /\ SettledWithFeedback
    /\ Feedback = Object("undefined", "analysis")
    /\ ErrorShown = <<>>

\* C7: when the analysis request resolves with a failing status and a JSON body
\* whose error field is a string, the message shown carries that string and
\* feedback is not set.
C7_ServerErrorIsShown ==
    [][SettledWithServerError'
        => /\ Includes(ErrorShown', ParseJSON(op'.settlement.body).value.error)
           /\ Feedback' = Feedback]_vars

\* C8: when the fetch rejects, the message shown is none a server error is
\* shown with, the prior feedback is unchanged and the in-progress flag is
\* cleared.
C8_NetworkFailureIsDistinct ==
    [][SettledWithNetworkFailure'
        => /\ ErrorShown' \notin ServerErrorMessages
           /\ Feedback' = Feedback
           /\ ~InProgress']_vars

\* C9: no analysis request is posted whose audio payload is empty.
C9_NoEmptyAudioPosted ==
    \A r \in Requests : requests[r] = "pending" => BlobSize(payload[r].audio) > 0

\* C10: at most one analysis request is in flight at a time.
C10_OneAnalysisInFlight == Cardinality(Unresolved) <= 1

C10_AnalysisInFlight ==
    /\ Cardinality(Unresolved) = 1
    /\ InProgress
    /\ \/ HomeMounted /\ home.audioURL # 0 /\ ~home.isRecording
       \/ CoachMounted /\ Len(coach.presentationSlides) # 0 /\ Coach_mediaBlobUrl # 0

\* C11: a result that arrives for a superseded session or request is ignored:
\* a getUserMedia grant for an invocation that a newer startRecording has
\* superseded starts no recorder, and an analysis response that arrives after
\* the recording it was posted for has been reset sets neither feedback nor
\* error.
C11_StaleResultsIgnored ==
    [][/\ \A i \in Sessions :
            (/\ calls[i] = "pending"
             /\ calls'[i] = "settled"
             /\ \E j \in Sessions : j > i /\ calls[j] # "none")
                => recorders'[i] = recorders[i]
       /\ (Settled' /\ HomeMounted /\ home.audioBlob = 0)
            => (home.feedback' = home.feedback /\ home.error' = home.error)]_vars

\* The structure the pages render feedback from.
ExpectedFeedback(body) ==
    ParseJSON(body).ok /\ ParseJSON(body).value = Object("undefined", "analysis")

\* C12: when the analysis endpoint answers with an HTTP success whose body is
\* not JSON, or is JSON lacking the expected feedback structure, an error is
\* shown and feedback is not set from that body.
C12_InvalidResponseIsAnError ==
    [][(/\ Settled'
        /\ IsResponse(op'.settlement)
        /\ op'.settlement.ok
        /\ ~ExpectedFeedback(op'.settlement.body))
        => (Feedback' = Feedback /\ ErrorShown' # <<>>)]_vars

\* The playback URL of the current artifact, 0 if there is none.
Artifact == IF HookMounted THEN hook.audioURL ELSE home.audioURL

\* C13: the session moves only along Idle -> AcquiringDevice -> Recording ->
\* Stopped and to Failed; in particular the task of a recorder error, which
\* takes the session to Failed, builds no artifact, and the session is never
\* at once Recording and holding an artifact.
C13_SessionTransitions ==
    [][/\ op'.name = "error" => (blobs' = blobs /\ Artifact' = Artifact)
       /\ ~(IsRecording' /\ Artifact' # 0)]_vars

\* The browser delivers the dataavailable and stop events of a recorder that
\* has been stopped.
FairSpec ==
    Spec /\ \A i \in Sessions : WF_vars(Hook_stopped(i) \/ Home_stopped(i))

\* The recorder stopRecording acts on.
RecorderRef == IF HookMounted THEN hook.mediaRecorderRef ELSE home.mediaRecorderRef

\* stopRecording has just stopped the recording of session i.
StopRequested(i) ==
    /\ op.name = "stopRecording"
    /\ RecorderRef = i
    /\ recorders[i] = "stopping"

\* Session i is Stopped: its fragments are one artifact with a playback URL,
\* isRecording is false and the tracks of its stream are stopped.
SessionStopped(i) ==
    /\ blobs[i] # NoBlob
    /\ Artifact = i
    /\ ~IsRecording
    /\ streams[i] = "ended"

\* C14: stopRecording called while Recording eventually brings the session to
\* Stopped (the component staying mounted), given that the browser delivers
\* the recorder's stop event.
C14_StopLeadsToStopped ==
    \A i \in Sessions : StopRequested(i) ~> (SessionStopped(i) \/ unmounted)

\* The object URLs created so far: the stop listener creates the URL of a
\* session with its Blob.
ObjectURLs == {i \in Sessions : blobs[i] # NoBlob}

\* C15: no playback handle leaks: every object URL other than that of the
\* current artifact of the mounted component has been revoked.
C15_NoURLLeak ==
    \A url \in ObjectURLs : (unmounted \/ url # Artifact) => revoked[url] >= 1

\* The chunk list of the mounted component.
Chunks == IF HookMounted THEN hook.chunksRef ELSE home.audioChunksRef
Fragments(chunks) == {chunks[k] : k \in DOMAIN chunks}

\* A step appends a fragment of session i to the chunk list.
Appends(i) == \E f \in Fragments(Chunks') \ Fragments(Chunks) : f[1] = i

C17_InProgressIffUnresolved ==
    (~unmounted /\ ~HookMounted) => (InProgress <=> Unresolved # {})

C17_FlagClearedOnFailure ==
    /\ Settled
    /\ (~IsResponse(op.settlement) \/ ~op.settlement.ok
            \/ ~ParseJSON(op.settlement.body).ok)
    /\ ErrorShown # <<>>
    /\ ~InProgress
    /\ Unresolved = {}

\* The last step was the continuation of a PDF upload that succeeded: a 2xx
\* response whose JSON body has an array of slides.
UploadSucceeded ==
    /\ op.name = "pdfSettled"
    /\ IsResponse(op.settlement)
    /\ op.settlement.ok
    /\ op.settlement.json
    /\ op.settlement.isArray
UploadFailed == op.name = "pdfSettled" /\ ~UploadSucceeded
PendingUploads == {u \in Uploads : uploads[u] = "pending"}

\* C18: whenever the slide list is non-empty the active slide index is a valid
\* index into it, and a successful upload replaces the list and resets the
\* index to 0 in one step.
C18_ActiveSlideIndexValid ==
    [][/\ Len(coach.presentationSlides') # 0 =>
            (0 <= coach.activeSlideIndex'
                /\ coach.activeSlideIndex' < Len(coach.presentationSlides'))
       /\ UploadSucceeded' =>
            (coach.presentationSlides' = op'.settlement.slides
                /\ coach.activeSlideIndex' = 0)]_vars

C18_ListReplacedDuringOverlap ==
    /\ UploadSucceeded
    /\ Len(coach.presentationSlides) = 1
    /\ coach.activeSlideIndex = 0
    /\ PendingUploads # {}

\* C19: isProcessingPDF is true whenever a PDF upload is unresolved, and a
\* failed upload leaves the slide list and the active index unchanged.
C19_ProcessingWhileUploadPending ==
    [][/\ PendingUploads' # {} => coach.isProcessingPDF'
       /\ UploadFailed' =>
            (coach.presentationSlides' = coach.presentationSlides
                /\ coach.activeSlideIndex' = coach.activeSlideIndex)]_vars

\* C20: the analyze route answers every request with exactly one JSON
\* response: 400 with an error string and no external call when the request
\* has no audio field; otherwise transcription is called before the chat
\* completion, 200 with transcription and feedback only if both calls
\* succeeded, and 500 with an error string when form parsing or either call
\* failed.
C20_RouteResponses ==
    /\ Len(route.responses) = (IF route.pc = "done" THEN 1 ELSE 0)
    /\ route.calls \in {<<>>, <<"transcription">>, <<"transcription", "chat">>}
    /\ route.pc = "done" =>
        LET response == route.responses[1] IN
        /\ response.status \in {200, 400, 500}
        /\ response.status = 400 <=> route.body \in {"absent", "emptyText"}
        /\ response.status = 400 => (route.calls = <<>> /\ response.error # "undefined")
        /\ response.status = 200 <=> route.outcomes = <<"ok", "ok">>
        /\ response.status = 200 =>
            (response.transcription # "undefined" /\ response.feedback # "undefined")
        /\ (route.body = "unparseable"
                \/ \E k \in DOMAIN route.outcomes : route.outcomes[k] # "ok")
            => (response.status = 500 /\ response.error # "undefined")

C20_Answered200 ==
    /\ route.pc = "done"
    /\ route.responses[1].status = 200
    /\ route.calls = <<"transcription", "chat">>
====
